---- MODULE Spec2Model ----
(***************************************************************************)
(* Publications service of alvareznver/microservice-project.               *)
(*                                                                         *)
(* The model covers the publication store (PublicationRepository), the     *)
(* entity's state machine (Publication.canTransitionToStatus), the four    *)
(* transition validators and their facade (StateValidators), the service   *)
(* operations (PublicationService), the retrying authors client            *)
(* (AuthorsServiceClient) and the controller's error mapping               *)
(* (PublicationController.handleError).                                    *)
(*                                                                         *)
(* Strings the code inspects character by character (title, content,       *)
(* reviewNotes: truthiness and trim()) are sequences of one-character      *)
(* strings.  An error message is the sequence of its words, which Text     *)
(* joins with single spaces into the string that String.includes(...) of   *)
(* handleError searches.  JavaScript's undefined / null is the value Null. *)
(*                                                                         *)
(* A request is handled in steps: every await of the code on the database  *)
(* or on the authors service ends a step, and the steps of the requests in *)
(* flight interleave.                                                      *)
(*                                                                         *)
(* A row carries the columns the operations read or decide on: title,      *)
(* content, status, authorId, authorName, authorEmail, reviewCount and     *)
(* reviewNotes.  abstract_text, keywords, isVisible and the timestamps are *)
(* copied or defaulted and never read, and are left out.                   *)
(***************************************************************************)
EXTENDS Integers, Sequences, FiniteSets, TLC

VARIABLES
    store,      \* the publications table: id -> row
    nextId,     \* number of the next generated primary key
    probe,      \* a direct call of an entity / validator method and its result
    requests,   \* the requests received: slot -> request, its step, its response
    authors     \* the authors table of the authors service: id -> row

vars == <<store, nextId, probe, requests, authors>>

(***************************************************************************)
(* Bounds and input sets                                                   *)
(***************************************************************************)
\* number of primary keys the requests name in their paths
MaxPubs == 1

\* the :id of the paths.  The keys generated are 1, 2, ...: a row created
\* after the first one is stored and returned, and no request names it.
PubIds == 1..MaxPubs

\* undefined / null where a string is expected
Null == <<"null">>

\* null where an entity (a row, an author record) is expected
NoRow == [absent |-> TRUE]

\* values of title and content: empty, white space, a text
TextInputs == { <<>>, <<" ">>, <<"\t">>, <<"a">> }

\* values of reviewNotes (Null: the field is absent)
NoteInputs == { Null, <<>>, <<"\n">>, <<"n">> }

\* author ids a creation request may carry (<<>>: empty string)
AuthorIdInputs == { <<>>, <<"A">> }

(***************************************************************************)
(* PublicationStatus                                                       *)
(***************************************************************************)
DRAFT == "DRAFT"

IN_REVIEW == "IN_REVIEW"

APPROVED == "APPROVED"

PUBLISHED == "PUBLISHED"

REJECTED == "REJECTED"

PublicationStatus == {DRAFT, IN_REVIEW, APPROVED, PUBLISHED, REJECTED}

\* a status string that is not a member of the enumeration
BogusStatus == "ARCHIVED"

(***************************************************************************)
(* JavaScript string helpers                                               *)
(***************************************************************************)
\* the WhiteSpace and LineTerminator code points that a string of this
\* module can hold: TAB, LF, VT, FF, CR, SP, NBSP, U+1680 and U+FEFF
WhiteSpace ==
    {"\t", "\n", "", "\f", "\r", " ",
     " ", " ", "﻿"}

\* whether String.prototype.trim strips the character
IsSpace(c) == c \in WhiteSpace

RECURSIVE TrimStart(_)
TrimStart(s) ==
    IF s = <<>> THEN <<>>
    ELSE IF IsSpace(Head(s)) THEN TrimStart(Tail(s)) ELSE s

RECURSIVE TrimEnd(_)
TrimEnd(s) ==
    IF s = <<>> THEN <<>>
    ELSE IF IsSpace(s[Len(s)]) THEN TrimEnd(SubSeq(s, 1, Len(s) - 1)) ELSE s

\* String.prototype.trim
Trim(s) == TrimEnd(TrimStart(s))

\* !s for a value that is a string, undefined or null
Falsy(s) == s = Null \/ s = <<>>

\* !s || s.trim().length === 0
Blank(s) == Falsy(s) \/ Len(Trim(s)) = 0

\* the string of a message: its words joined by single spaces
RECURSIVE Text(_)
Text(words) ==
    IF words = <<>> THEN ""
    ELSE IF Len(words) = 1 THEN words[1]
    ELSE words[1] \o " " \o Text(Tail(words))

\* message.includes(pattern): pattern is a substring of message
Includes(message, pattern) ==
    LET m == Text(message)
        p == Text(pattern)
    IN  \E i \in 1..(Len(m) - Len(p) + 1) : SubSeq(m, i, i + Len(p) - 1) = p

(***************************************************************************)
(* Publication entity                                                      *)
(***************************************************************************)
\* canBeEdited also allowing a REJECTED publication to be edited
canBeEdited_AlsoRejected(this) ==
    this.status = DRAFT \/ this.status = IN_REVIEW \/ this.status = REJECTED

\* Publication.canBeEdited
canBeEdited(this) == this.status = DRAFT \/ this.status = IN_REVIEW

\* the table with the edge IN_REVIEW -> DRAFT left out
validTransitions_MissingDraftEdge ==
    [s \in PublicationStatus |->
        CASE s = DRAFT     -> <<IN_REVIEW, REJECTED>>
          [] s = IN_REVIEW -> <<APPROVED, REJECTED>>
          [] s = APPROVED  -> <<PUBLISHED>>
          [] s = PUBLISHED -> <<>>
          [] s = REJECTED  -> <<DRAFT>>]

\* the table with the edge REJECTED -> IN_REVIEW that ToReviewValidator's
\* message speaks of
validTransitions_RejectedToReview ==
    [s \in PublicationStatus |->
        CASE s = DRAFT     -> <<IN_REVIEW, REJECTED>>
          [] s = IN_REVIEW -> <<APPROVED, REJECTED, DRAFT>>
          [] s = APPROVED  -> <<PUBLISHED>>
          [] s = PUBLISHED -> <<>>
          [] s = REJECTED  -> <<DRAFT, IN_REVIEW>>]

\* the table with REJECTED made terminal
validTransitions_RejectedTerminal ==
    [s \in PublicationStatus |->
        CASE s = DRAFT     -> <<IN_REVIEW, REJECTED>>
          [] s = IN_REVIEW -> <<APPROVED, REJECTED, DRAFT>>
          [] s = APPROVED  -> <<PUBLISHED>>
          [] s = PUBLISHED -> <<>>
          [] s = REJECTED  -> <<>>]

\* the validTransitions table of Publication.canTransitionToStatus
validTransitions ==
    [s \in PublicationStatus |->
        CASE s = DRAFT     -> <<IN_REVIEW, REJECTED>>
          [] s = IN_REVIEW -> <<APPROVED, REJECTED, DRAFT>>
          [] s = APPROVED  -> <<PUBLISHED>>
          [] s = PUBLISHED -> <<>>
          [] s = REJECTED  -> <<DRAFT>>]

\* Publication.canTransitionToStatus:
\* validTransitions[this.status]?.includes(newStatus) ?? false
canTransitionToStatus(this, newStatus) ==
    IF this.status \in DOMAIN validTransitions
    THEN \E i \in 1..Len(validTransitions[this.status]) :
            validTransitions[this.status][i] = newStatus
    ELSE FALSE

(***************************************************************************)
(* StateValidators.  A validator yields the message of the Error it throws *)
(* or NoError when it returns normally.                                    *)
(***************************************************************************)
NoError == <<>>

ToReviewValidator(publication, newStatus) ==
    IF newStatus # IN_REVIEW THEN NoError
    ELSE IF Blank(publication.title)
         THEN <<"Title", "is", "required", "for", "review">>
    ELSE IF Blank(publication.content)
         THEN <<"Content", "is", "required", "for", "review">>
    ELSE IF publication.status # DRAFT /\ publication.status # REJECTED
         THEN <<"Only", "DRAFT", "or", "REJECTED", "publications", "can",
                "go", "to", "REVIEW">>
    ELSE NoError

ToApprovedValidator(publication, newStatus) ==
    IF newStatus # APPROVED THEN NoError
    ELSE IF publication.status # IN_REVIEW
         THEN <<"Only", "IN_REVIEW", "publications", "can", "be", "APPROVED">>
    ELSE IF Blank(publication.reviewNotes)
         THEN <<"Review", "notes", "are", "required", "for", "approval">>
    ELSE NoError

\* ToPublishedValidator with the review-notes check of its neighbours added
ToPublishedValidator_NeedsNotes(publication, newStatus) ==
    IF newStatus # PUBLISHED THEN NoError
    ELSE IF publication.status # APPROVED
         THEN <<"Only", "APPROVED", "publications", "can", "be", "PUBLISHED">>
    ELSE IF Blank(publication.reviewNotes)
         THEN <<"Review", "notes", "are", "required", "for", "publication">>
    ELSE NoError

\* ToPublishedValidator checking the status for the target APPROVED too
ToPublishedValidator_AlsoOnApproved(publication, newStatus) ==
    IF newStatus # PUBLISHED /\ newStatus # APPROVED THEN NoError
    ELSE IF publication.status # APPROVED
         THEN <<"Only", "APPROVED", "publications", "can", "be", "PUBLISHED">>
    ELSE NoError

ToPublishedValidator(publication, newStatus) ==
    IF newStatus # PUBLISHED THEN NoError
    ELSE IF publication.status # APPROVED
         THEN <<"Only", "APPROVED", "publications", "can", "be", "PUBLISHED">>
    ELSE NoError

\* ToRejectedValidator without the trim(): only !reviewNotes is tested
ToRejectedValidator_NoTrim(publication, newStatus) ==
    IF newStatus # REJECTED THEN NoError
    ELSE IF publication.status = PUBLISHED
         THEN <<"Published", "publications", "cannot", "be", "REJECTED">>
    ELSE IF Falsy(publication.reviewNotes)
         THEN <<"Review", "notes", "are", "required", "for", "rejection">>
    ELSE NoError

ToRejectedValidator(publication, newStatus) ==
    IF newStatus # REJECTED THEN NoError
    ELSE IF publication.status = PUBLISHED
         THEN <<"Published", "publications", "cannot", "be", "REJECTED">>
    ELSE IF Blank(publication.reviewNotes)
         THEN <<"Review", "notes", "are", "required", "for", "rejection">>
    ELSE NoError

\* StateValidator.validate, dispatched on the validator's class
validate(validator, publication, newStatus) ==
    CASE validator = "ToReviewValidator" ->
            ToReviewValidator(publication, newStatus)
      [] validator = "ToApprovedValidator" ->
            ToApprovedValidator(publication, newStatus)
      [] validator = "ToPublishedValidator" ->
            ToPublishedValidator(publication, newStatus)
      [] validator = "ToRejectedValidator" ->
            ToRejectedValidator(publication, newStatus)

\* StateValidationFacade.validators, as the constructor builds it
validators ==
    <<"ToReviewValidator", "ToApprovedValidator", "ToPublishedValidator",
      "ToRejectedValidator">>

\* the for loop of validateTransition over a list of validators: the first
\* Error thrown ends the loop
RECURSIVE runValidators(_, _, _)
runValidators(list, publication, newStatus) ==
    IF list = <<>> THEN NoError
    ELSE LET e == validate(Head(list), publication, newStatus)
         IN  IF e # NoError THEN e
             ELSE runValidators(Tail(list), publication, newStatus)

\* StateValidationFacade.validateTransition
validateTransition(publication, newStatus) ==
    runValidators(validators, publication, newStatus)

(***************************************************************************)
(* AuthorsServiceClient.  A call of authorExists or getAuthor is a record: *)
(* the attempt it is at, the outcomes of the GET /authors/:id requests     *)
(* sent so far, the delays slept, and where it stands: waiting for the     *)
(* response to its GET ("get"), sleeping before the next attempt           *)
(* ("sleep"), or over, retryRequest having resolved with a response        *)
(* ("resolved") or thrown the last error ("thrown").  "200" is a response  *)
(* axios resolves with; every other outcome makes the request function     *)
(* throw.                                                                  *)
(***************************************************************************)
maxRetries == 3

AttemptOutcomes == {"200", "404", "timeout", "refused"}

\* Math.pow(2, attempt)
RECURSIVE Pow2(_)
Pow2(n) == IF n = 0 THEN 1 ELSE 2 * Pow2(n - 1)

\* the call as the client function starts it: the first GET is sent
StartCall(fn, authorId) ==
    [fn |-> fn, authorId |-> authorId, attempt |-> 1, pc |-> "get",
     outcomes |-> <<>>, delay |-> 0, delays |-> <<>>]

\* retryRequest treating a response to the first attempt as a failure
retryRequest_RetriesFirstSuccess(call, outcome) ==
    LET tried == [call EXCEPT !.outcomes = Append(@, outcome)]
    IN  IF outcome = "200" /\ call.attempt # 1
        THEN [tried EXCEPT !.pc = "resolved"]
        ELSE IF call.attempt < maxRetries
        THEN [tried EXCEPT !.pc = "sleep",
                           !.delay = Pow2(call.attempt) * 1000]
        ELSE [tried EXCEPT !.pc = "thrown"]

\* retryRequest rethrowing a 404 response at once, retrying only the
\* failures to reach the service
retryRequest_FailFastOn404(call, outcome) ==
    LET tried == [call EXCEPT !.outcomes = Append(@, outcome)]
    IN  IF outcome = "200"
        THEN [tried EXCEPT !.pc = "resolved"]
        ELSE IF call.attempt < maxRetries /\ outcome # "404"
        THEN [tried EXCEPT !.pc = "sleep",
                           !.delay = Pow2(call.attempt) * 1000]
        ELSE [tried EXCEPT !.pc = "thrown"]

\* retryRequest sleeping attempt * 1000 ms instead of 2^attempt * 1000 ms
retryRequest_LinearBackoff(call, outcome) ==
    LET tried == [call EXCEPT !.outcomes = Append(@, outcome)]
    IN  IF outcome = "200"
        THEN [tried EXCEPT !.pc = "resolved"]
        ELSE IF call.attempt < maxRetries
        THEN [tried EXCEPT !.pc = "sleep", !.delay = call.attempt * 1000]
        ELSE [tried EXCEPT !.pc = "thrown"]

\* retryRequest(requestFn, attempt) when the awaited requestFn() settles
\* with the outcome: it returns the response, or starts the timer of the
\* backoff delay, or throws the error
retryRequest(call, outcome) ==
    LET tried == [call EXCEPT !.outcomes = Append(@, outcome)]
    IN  IF outcome = "200"
        THEN [tried EXCEPT !.pc = "resolved"]
        ELSE IF call.attempt < maxRetries
        THEN [tried EXCEPT !.pc = "sleep",
                           !.delay = Pow2(call.attempt) * 1000]
        ELSE [tried EXCEPT !.pc = "thrown"]

\* retryRequest when the timer fires: the delay has been slept and
\* retryRequest(requestFn, attempt + 1) sends the next GET
retryAfterDelay(call) ==
    [call EXCEPT !.pc = "get", !.attempt = @ + 1,
                 !.delays = Append(@, call.delay), !.delay = 0]

\* the call is over
Over(call) == call.pc \in {"resolved", "thrown"}

\* the author record the authors service holds for an id
AuthorData(authorId) ==
    [id |-> authorId, firstName |-> <<"F">>, lastName |-> <<"L">>,
     email |-> <<"f", "@", "l">>]

\* AuthorsServiceClient.authorExists once retryRequest is over:
\* response.status === 200, or false from the catch
authorExists(call) ==
    call.pc = "resolved" /\ call.outcomes[Len(call.outcomes)] = "200"

\* AuthorsServiceClient.getAuthor once retryRequest is over:
\* response.data.data, or null from the catch
getAuthor(call) ==
    IF call.pc = "resolved" THEN AuthorData(call.authorId) ELSE NoRow

\* the call once the client function has returned: the value its caller
\* gets
Return(call) ==
    call @@ [returned |-> IF call.fn = "authorExists"
                          THEN authorExists(call) ELSE getAuthor(call)]

(***************************************************************************)
(* PublicationRepository.  A table is a function from the stored ids to    *)
(* rows; every operation yields the table after it and its return value.   *)
(***************************************************************************)
\* repository.create + save: the row with its generated key and the column
\* defaults (authorName, authorEmail, reviewNotes nullable; reviewCount 0)
create(table, id, publication) ==
    LET defaults == [authorName |-> Null, authorEmail |-> Null,
                     reviewCount |-> 0, reviewNotes |-> Null]
        row == [f \in DOMAIN defaults \cup DOMAIN publication |->
                    IF f \in DOMAIN publication THEN publication[f]
                    ELSE defaults[f]]
    IN  [table |-> [i \in DOMAIN table \cup {id} |->
                        IF i = id THEN row ELSE table[i]],
         result |-> row]

\* PublicationRepository.findById
findById(table, id) == IF id \in DOMAIN table THEN table[id] ELSE NoRow

\* PublicationRepository.update: UPDATE ... SET <data> WHERE id, then findById
update(table, id, data) ==
    LET written ==
            [i \in DOMAIN table |->
                IF i = id
                THEN [f \in DOMAIN table[i] |->
                        IF f \in DOMAIN data THEN data[f] ELSE table[i][f]]
                ELSE table[i]]
    IN  [table |-> written, result |-> findById(written, id)]

\* updateStatus writing only while the row is still IN_REVIEW
updateStatus_OnlyFromReview(table, id, status, reviewNotes) ==
    IF id \in DOMAIN table /\ table[id].status # IN_REVIEW
    THEN [table |-> table, result |-> findById(table, id)]
    ELSE update(table, id, [status |-> status])

\* updateStatus writing the reviewNotes of the request whatever they are
updateStatus_WritesAnyNotes(table, id, status, reviewNotes) ==
    update(table, id, [status |-> status, reviewNotes |-> reviewNotes])

\* updateStatus writing the status only, never the reviewNotes
updateStatus_DropNotes(table, id, status, reviewNotes) ==
    update(table, id, [status |-> status])

\* PublicationRepository.updateStatus
updateStatus(table, id, status, reviewNotes) ==
    LET updateData == IF ~Falsy(reviewNotes)
                      THEN [status |-> status, reviewNotes |-> reviewNotes]
                      ELSE [status |-> status]
    IN  update(table, id, updateData)

\* PublicationRepository.delete
delete(table, id) ==
    [table |-> [i \in DOMAIN table \ {id} |-> table[i]],
     result |-> id \in DOMAIN table]

(***************************************************************************)
(* PublicationController: the HTTP response of a request.                  *)
(***************************************************************************)
Response(http, code, message, data) ==
    [http |-> http, code |-> code, message |-> message, data |-> data]

\* PublicationController.handleError
handleError(message) ==
    IF Includes(message, <<"not", "found">>)
    THEN Response(404, "NOT_FOUND", message, NoRow)
    ELSE IF Includes(message, <<"required">>)
    THEN Response(400, "VALIDATION_ERROR", message, NoRow)
    ELSE IF Includes(message, <<"cannot", "be", "edited">>)
    THEN Response(400, "INVALID_STATE", message, NoRow)
    ELSE IF Includes(message, <<"Cannot", "transition">>)
    THEN Response(400, "INVALID_TRANSITION", message, NoRow)
    ELSE Response(500, "INTERNAL_ERROR",
                  <<"An", "unexpected", "error", "occurred">>, NoRow)

(***************************************************************************)
(* Requests.  Express starts a handler for every request it receives, and  *)
(* a handler runs until its next await; a slot holds one request from its  *)
(* arrival to its response:                                                *)
(*   op, id, dto  the route, the :id of the path and the body              *)
(*   pc           where the handler stands: "idle" (nothing received),     *)
(*                "exists" / "author" (createPublication awaits            *)
(*                authorExists / getAuthor), "insert" (it awaits the       *)
(*                INSERT), "select" (the first findById is awaited),       *)
(*                "read" (the row is read and checked, the UPDATE or       *)
(*                DELETE awaited), "written" (the UPDATE is done, the      *)
(*                re-read awaited), "done" (the response is sent)          *)
(*   seen         the row the first findById returned                      *)
(*   thrown       the message of the Error the service threw               *)
(*   resp         the response                                            *)
(*   calls        the calls of the authors client, in order: the values    *)
(*                returned, and the call in progress                       *)
(* and what an observer of the database notes about it:                    *)
(*   before       the table when the request arrived                       *)
(*   after        the table when its response was sent                     *)
(*   latest       this request's UPDATE is the last one executed           *)
(*   disturbed    another request's INSERT, UPDATE or DELETE was executed  *)
(*                between this request's arrival and its response          *)
(***************************************************************************)
NoResponse == Response(0, "NONE", NoError, NoRow)

Idle ==
    [op |-> "none", id |-> 0, dto |-> NoRow, pc |-> "idle", seen |-> NoRow,
     thrown |-> NoError, resp |-> NoResponse, calls |-> <<>>,
     before |-> <<>>, after |-> <<>>, latest |-> FALSE,
     disturbed |-> FALSE]

\* a request that has arrived, the table being as given: the service
\* awaits its first findById
InFlight(op, id, dto, table) ==
    [Idle EXCEPT !.op = op, !.id = id, !.dto = dto, !.pc = "select",
                 !.before = table]

\* the request when its first findById has returned the row
Found(request, table) ==
    [request EXCEPT !.pc = "read", !.seen = findById(table, request.id)]

\* a request answered, the table being as given
Answered(request, resp, table) ==
    [request EXCEPT !.pc = "done", !.resp = resp, !.after = table]

\* a request whose service call threw: the catch of the controller
Threw(request, message, table) ==
    [request EXCEPT !.pc = "done", !.thrown = message,
                    !.resp = handleError(message), !.after = table]

\* a request after a check of the service: answered when the check threw
\* a message, going on when it threw none
Checked(request, message, table) ==
    IF message = NoError THEN request ELSE Threw(request, message, table)

Slots == DOMAIN requests

\* a request arrives in slot r: the slots number the requests in the order
\* in which the service receives them
Arrives(r) ==
    /\ requests[r].pc = "idle"
    /\ \A s \in Slots : s < r => requests[s].pc # "idle"

\* the requests of the other slots after the request in slot r has
\* executed a statement on the row id: those in flight are disturbed, and
\* none on that row is the latest writer when the statement is an UPDATE
Others(r, id, wrote) ==
    [s \in Slots \ {r} |->
        LET request == requests[s]
            marked == IF request.pc \notin {"idle", "done"}
                      THEN [request EXCEPT !.disturbed = TRUE]
                      ELSE request
        IN  IF wrote /\ request.id = id
            THEN [marked EXCEPT !.latest = FALSE] ELSE marked]

(***************************************************************************)
(* PublicationService, from the start of an operation to its first await:  *)
(* the message of the Error thrown (NoError: the operation goes on).       *)
(***************************************************************************)
Required == <<"title,", "content,", "and", "authorId", "are", "required">>

NotFound(id) == <<"Publication", "with", "id", ToString(id), "not", "found">>

\* the string of a sequence of characters
RECURSIVE Str(_)
Str(chars) == IF chars = <<>> THEN "" ELSE Head(chars) \o Str(Tail(chars))

AuthorNotFound(authorId) ==
    <<"Author", "with", "id", Str(authorId), "not", "found">>

\* the bodies of POST /publications the controller answers 400 itself
RejectedByController(dto) ==
    Falsy(dto.title) \/ Falsy(dto.content) \/ Falsy(dto.authorId)

\* createPublication up to the call of authorExists
checkCreate(dto) ==
    IF Falsy(dto.title) \/ Falsy(dto.content) \/ Falsy(dto.authorId)
    THEN Required ELSE NoError

\* changePublicationStatus without the canTransitionToStatus check
checkTransition_SkipMachine(publication, id, dto) ==
    IF publication = NoRow THEN NotFound(id)
    ELSE validateTransition(publication, dto.status)

\* changePublicationStatus from findById to the state-machine check
checkTransition(publication, id, dto) ==
    IF publication = NoRow THEN NotFound(id)
    ELSE LET rejected == validateTransition(publication, dto.status)
         IN  IF rejected # NoError THEN rejected
             ELSE IF ~canTransitionToStatus(publication, dto.status)
             THEN <<"Cannot", "transition", "from", publication.status, "to",
                    dto.status>>
             ELSE NoError

\* updatePublication from findById to the canBeEdited check
checkEdit(publication, id) ==
    IF publication = NoRow THEN NotFound(id)
    ELSE IF ~canBeEdited(publication)
    THEN <<"Publication", "cannot", "be", "edited", "in", publication.status,
           "status">>
    ELSE NoError

\* deletePublication without the gate for PUBLISHED
checkDelete_NoGate(publication, id) ==
    IF publication = NoRow THEN NotFound(id) ELSE NoError

\* deletePublication from findById to the PUBLISHED check
checkDelete(publication, id) ==
    IF publication = NoRow THEN NotFound(id)
    ELSE IF publication.status = PUBLISHED
    THEN <<"Cannot", "delete", "published", "publications">>
    ELSE NoError

\* createPublication saving the row whatever authorExists returned
afterAuthorExists_IgnoreExists(request, exists, table) ==
    [request EXCEPT !.pc = "author",
        !.calls = Append(@, StartCall("getAuthor", request.dto.authorId))]

\* createPublication when the awaited authorExists has returned: it throws,
\* or calls getAuthor
afterAuthorExists(request, exists, table) ==
    IF ~exists
    THEN Threw(request, AuthorNotFound(request.dto.authorId), table)
    ELSE [request EXCEPT !.pc = "author",
            !.calls = Append(@, StartCall("getAuthor", request.dto.authorId))]

\* createPublication throwing when getAuthor returned null
afterGetAuthor_NeedsAuthorData(request, authorData, table) ==
    IF authorData = NoRow
    THEN Threw(request, <<"Author", "data", "unavailable">>, table)
    ELSE [request EXCEPT !.pc = "insert"]

\* createPublication when the awaited getAuthor has returned: the entity is
\* built, with or without the author data, and repository.create awaited
afterGetAuthor(request, authorData, table) == [request EXCEPT !.pc = "insert"]

\* the entity createPublication builds from the body and the author data
newPublication(dto, authorData) ==
    LET publication == [title |-> dto.title, content |-> dto.content,
                        authorId |-> dto.authorId, status |-> DRAFT]
    IN  IF authorData # NoRow
        THEN publication @@
             [authorName |-> authorData.firstName \o <<" ">>
                                \o authorData.lastName,
              authorEmail |-> authorData.email]
        ELSE publication

(***************************************************************************)
(* The steps of the requests.  An action that receives a request takes as  *)
(* arguments the ids its path may name and the bodies it may carry, an     *)
(* action in which a GET to the authors service settles the outcomes the   *)
(* GET may have.                                                           *)
(***************************************************************************)
\* the step changes the request of slot r only, and no table
Step(r, request) ==
    /\ requests' = [requests EXCEPT ![r] = request]
    /\ UNCHANGED <<store, nextId, probe, authors>>

\* POST /publications asking the authors service before looking at the body
ReceiveCreate_AsksFirst(r, bodies) ==
    \E dto \in bodies :
        /\ Arrives(r)
        /\ Step(r, [InFlight("createPublication", 0, dto, store)
                        EXCEPT !.pc = "exists",
                               !.calls = <<StartCall("authorExists",
                                                     dto.authorId)>>])

\* POST /publications up to the first GET of authorExists
ReceiveCreate(r, bodies) ==
    \E dto \in bodies :
        LET request == InFlight("createPublication", 0, dto, store)
        IN  /\ Arrives(r)
            /\ Step(r,
                IF RejectedByController(dto)
                THEN Answered(request,
                        Response(400, "VALIDATION_ERROR", Required, NoRow),
                        store)
                ELSE IF checkCreate(dto) # NoError
                THEN Threw(request, checkCreate(dto), store)
                ELSE [request EXCEPT !.pc = "exists",
                        !.calls = <<StartCall("authorExists",
                                              dto.authorId)>>])

\* what the request keeps of a call that is over: the function called and
\* the value it returned
Kept(call) ==
    [fn |-> call.fn, authorId |-> call.authorId,
     returned |-> Return(call).returned]

\* the GET /authors/:id a createPublication awaits settles
Get(r, outcomes) ==
    \E outcome \in outcomes :
        LET request == requests[r]
            n == Len(request.calls)
            call == retryRequest(request.calls[n], outcome)
            returned == [request EXCEPT !.calls[n] = Kept(call)]
        IN  /\ request.pc \in {"exists", "author"}
            /\ request.calls[n].pc = "get"
            /\ Step(r,
                IF ~Over(call) THEN [request EXCEPT !.calls[n] = call]
                ELSE IF request.pc = "exists"
                THEN afterAuthorExists(returned, authorExists(call), store)
                ELSE afterGetAuthor(returned, getAuthor(call), store))

\* the timer of the backoff delay a createPublication awaits fires
Sleep(r) ==
    LET request == requests[r]
        n == Len(request.calls)
    IN  /\ request.pc \in {"exists", "author"}
        /\ request.calls[n].pc = "sleep"
        /\ Step(r, [request EXCEPT
                        !.calls[n] = retryAfterDelay(request.calls[n])])

\* repository.create of createPublication: the INSERT, and the response
Insert(r) ==
    LET request == requests[r]
        saved == create(store, nextId,
                        newPublication(request.dto,
                                       request.calls[2].returned))
    IN  /\ request.pc = "insert"
        /\ store' = saved.table
        /\ nextId' = nextId + 1
        /\ requests' =
                (r :> Answered([request EXCEPT !.id = nextId],
                               Response(201, "SUCCESS", NoError,
                                        saved.result),
                               saved.table))
                    @@ Others(r, nextId, FALSE)
        /\ UNCHANGED <<probe, authors>>

\* PATCH /publications/:id/status arrives: the controller's check of the
\* status, and the call of the service up to its findById
ReceiveChange(r, ids, bodies) ==
    \E id \in ids, dto \in bodies :
        LET request == InFlight("changePublicationStatus", id, dto, store)
        IN  /\ Arrives(r)
            /\ Step(r,
                IF dto.status \notin PublicationStatus
                THEN Answered(request,
                        Response(400, "VALIDATION_ERROR",
                            <<"status", "must", "be", "one", "of:",
                              "DRAFT,", "IN_REVIEW,", "APPROVED,",
                              "PUBLISHED,", "REJECTED">>, NoRow),
                        store)
                ELSE request)

\* PATCH /publications/:id arrives: the call of the service up to its
\* findById
ReceiveUpdate(r, ids, bodies) ==
    \E id \in ids, dto \in bodies :
        /\ Arrives(r)
        /\ Step(r, InFlight("updatePublication", id, dto, store))

\* DELETE /publications/:id arrives: the call of the service up to its
\* findById
ReceiveDelete(r, ids) ==
    \E id \in ids :
        /\ Arrives(r)
        /\ Step(r, InFlight("deletePublication", id, NoRow, store))

\* what the service throws on the row its findById returned, before it
\* writes
check(request) ==
    CASE request.op = "changePublicationStatus" ->
            checkTransition(request.seen, request.id, request.dto)
      [] request.op = "updatePublication" ->
            checkEdit(request.seen, request.id)
      [] request.op = "deletePublication" ->
            checkDelete(request.seen, request.id)

\* the first findById writing the requested status of a status change
\* before the checks are made
Select_WriteFirst(r) ==
    LET request == Found(requests[r], store)
        writes == /\ request.op = "changePublicationStatus"
                  /\ request.seen # NoRow
        written == updateStatus(store, request.id, request.dto.status,
                                request.dto.reviewNotes).table
    IN  /\ requests[r].pc = "select"
        /\ IF writes
           THEN /\ store' = written
                /\ requests' =
                        (r :> Checked([request EXCEPT !.pc = "written",
                                                      !.latest = TRUE],
                                      check(request), written))
                            @@ Others(r, request.id, TRUE)
                /\ UNCHANGED <<nextId, probe, authors>>
           ELSE Step(r, Checked(request, check(request), store))

\* the first findById of updatePublication, changePublicationStatus or
\* deletePublication returns, and the service runs to its next await: it
\* throws when the row is missing or a check rejects, and awaits its
\* UPDATE or DELETE otherwise
Select(r) ==
    LET request == Found(requests[r], store)
    IN  /\ requests[r].pc = "select"
        /\ Step(r, Checked(request, check(request), store))

\* this.repository.update(id, data) of PublicationRepository.update: the
\* UPDATE statement of updateStatus or of updatePublication
Write(r) ==
    LET request == requests[r]
    IN  /\ request.pc = "read"
        /\ request.op \in {"changePublicationStatus", "updatePublication"}
        /\ store' = IF request.op = "changePublicationStatus"
                    THEN updateStatus(store, request.id, request.dto.status,
                                      request.dto.reviewNotes).table
                    ELSE update(store, request.id, request.dto).table
        /\ requests' =
                (r :> [request EXCEPT !.pc = "written", !.latest = TRUE])
                    @@ Others(r, request.id, TRUE)
        /\ UNCHANGED <<nextId, probe, authors>>

\* this.findById(id) of PublicationRepository.update, and the response
Reread(r) ==
    LET request == requests[r]
        updated == findById(store, request.id)
    IN  /\ request.pc = "written"
        /\ Step(r,
                IF updated # NoRow
                THEN Answered(request,
                              Response(200, "SUCCESS", NoError, updated),
                              store)
                ELSE Threw(request,
                        IF request.op = "changePublicationStatus"
                        THEN <<"Failed", "to", "update", "publication",
                               "status">>
                        ELSE <<"Failed", "to", "update", "publication">>,
                        store))

\* PublicationRepository.delete, and the response
Delete(r) ==
    LET request == requests[r]
        deleted == delete(store, request.id)
    IN  /\ request.pc = "read"
        /\ request.op = "deletePublication"
        /\ store' = deleted.table
        /\ requests' =
                (r :> IF deleted.result
                      THEN Answered(request,
                                Response(200, "SUCCESS", NoError, NoRow),
                                deleted.table)
                      ELSE Threw(request, <<"Failed", "to", "delete",
                                            "publication">>, deleted.table))
                    @@ Others(r, request.id, FALSE)
        /\ UNCHANGED <<nextId, probe, authors>>

(***************************************************************************)
(* The publications service.  The table lives in the database and outlives *)
(* the process: when the service starts it is empty, or holds a row that   *)
(* earlier requests have stored.  MaxRequests requests arrive, at any      *)
(* moment and with any body of the input sets.                             *)
(***************************************************************************)
\* number of requests received
MaxRequests == 2

\* outcomes of a GET to the authors service while a request is handled
RemoteOutcomes == {"200", "404"}

\* (title, content) of the rows in the table at the start
StoredTexts ==
    {<<t, <<"a">>>> : t \in TextInputs \ {<<" ">>}}
        \cup {<<<<"a">>, c>> : c \in TextInputs \ {<<"\t">>}}

\* reviewNotes of the rows in the table at the start
StoredNotes == {Null, <<" ">>, <<"n">>}

\* the rows the table may hold at the start.  createPublication stores the
\* texts of the body, and updatePublication every column its body names, so
\* requests can have stored each of them.
StoredRows ==
    {[title |-> tc[1], content |-> tc[2], status |-> s,
      authorId |-> <<"A">>, authorName |-> Null, authorEmail |-> Null,
      reviewCount |-> 0, reviewNotes |-> n] :
        tc \in StoredTexts, s \in PublicationStatus, n \in StoredNotes}

\* bodies of POST /publications: each field absent, empty, or a text
CreateInputs ==
    {[title |-> t, content |-> <<"a">>, authorId |-> <<"A">>] :
        t \in {Null, <<>>, <<" ">>, <<"a">>}}
        \cup {[title |-> <<"a">>, content |-> c, authorId |-> <<"A">>] :
                c \in {Null, <<>>, <<"\t">>}}
        \cup {[title |-> <<"a">>, content |-> <<"a">>, authorId |-> a] :
                a \in {Null} \cup AuthorIdInputs}

\* bodies of PATCH /publications/:id/status: each status with each
\* reviewNotes, and a status outside the enumeration
ChangeInputs ==
    {[status |-> s, reviewNotes |-> n] :
        s \in PublicationStatus, n \in NoteInputs}
        \cup {[status |-> BogusStatus, reviewNotes |-> <<"n">>]}

\* bodies of PATCH /publications/:id.  The controller passes req.body on
\* as it is, so a body can carry any column of the entity.
UpdateInputs ==
    {[title |-> t] : t \in {<<>>, <<"b">>}}
        \cup {[content |-> <<"b">>],
              [title |-> <<"b">>, content |-> <<"b">>],
              [reviewNotes |-> <<"m">>],
              [status |-> PUBLISHED],
              [authorId |-> <<"B">>]}

NoProbe == [fn |-> "none"]

Init ==
    /\ \/ store = <<>> /\ nextId = 1
       \/ \E row \in StoredRows : store = (1 :> row) /\ nextId = 2
    /\ requests = [r \in 1..MaxRequests |-> Idle]
    /\ authors = <<>>
    /\ probe = NoProbe

Next ==
    \/ \E r \in Slots : ReceiveCreate(r, CreateInputs)
    \/ \E r \in Slots : Get(r, RemoteOutcomes)
    \/ \E r \in Slots : Sleep(r)
    \/ \E r \in Slots : Insert(r)
    \/ \E r \in Slots : ReceiveChange(r, PubIds, ChangeInputs)
    \/ \E r \in Slots : ReceiveUpdate(r, PubIds, UpdateInputs)
    \/ \E r \in Slots : ReceiveDelete(r, PubIds)
    \/ \E r \in Slots : Select(r)
    \/ \E r \in Slots : Write(r)
    \/ \E r \in Slots : Reread(r)
    \/ \E r \in Slots : Delete(r)

Spec == Init /\ [][Next]_vars

(***************************************************************************)
(* Direct calls of the entity's and the facade's methods, on every row the *)
(* input sets give.                                                        *)
(***************************************************************************)
ProbeRows ==
    {[title |-> t, content |-> c, status |-> s, authorId |-> <<"A">>,
      authorName |-> Null, authorEmail |-> Null, reviewCount |-> 0,
      reviewNotes |-> n] :
        t \in TextInputs, c \in TextInputs, s \in PublicationStatus,
        n \in NoteInputs}

\* publication.canTransitionToStatus(newStatus): the value returned and the
\* entity after the call (the method assigns no field)
CallCanTransitionToStatus ==
    /\ probe.fn = "pending"
    /\ probe' = [fn |-> "canTransitionToStatus", this |-> probe.this,
                 newStatus |-> probe.newStatus,
                 returned |-> canTransitionToStatus(probe.this,
                                                    probe.newStatus),
                 after |-> probe.this]
    /\ UNCHANGED <<store, nextId, requests, authors>>

\* facade.validateTransition(publication, newStatus): the message thrown
CallValidateTransition ==
    /\ probe.fn = "pending"
    /\ probe' = [fn |-> "validateTransition", this |-> probe.this,
                 newStatus |-> probe.newStatus,
                 thrown |-> validateTransition(probe.this, probe.newStatus),
                 after |-> probe.this]
    /\ UNCHANGED <<store, nextId, requests, authors>>

\* every order in which the constructor could list the four validators
Orderings ==
    {p \in [DOMAIN validators -> {validators[i] : i \in DOMAIN validators}] :
        \A i \in DOMAIN p, j \in DOMAIN p : p[i] = p[j] => i = j}

\* validator.validate(publication, newStatus) for each of the four
\* validators on its own, and the facade's loop over them in every order:
\* the messages thrown (NoError: none)
CallValidators ==
    /\ probe.fn = "pending"
    /\ probe' = [fn |-> "validators", this |-> probe.this,
                 newStatus |-> probe.newStatus,
                 each |-> [i \in DOMAIN validators |->
                            validate(validators[i], probe.this,
                                     probe.newStatus)],
                 inOrder |-> [p \in Orderings |->
                                runValidators(p, probe.this,
                                              probe.newStatus)],
                 thrown |-> validateTransition(probe.this, probe.newStatus),
                 after |-> probe.this]
    /\ UNCHANGED <<store, nextId, requests, authors>>

EntityInit ==
    /\ store = <<>>
    /\ nextId = 1
    /\ requests = <<>>
    /\ authors = <<>>
    /\ probe \in {[fn |-> "pending", this |-> r, newStatus |-> s] :
                    r \in ProbeRows, s \in PublicationStatus}

EntityNext ==
    \/ CallCanTransitionToStatus
    \/ CallValidateTransition
    \/ CallValidators

SpecEntity == EntityInit /\ [][EntityNext]_vars

(***************************************************************************)
(* Direct calls of the authors client.  The calls overlap: each awaits its *)
(* GET and sleeps its backoff delay on its own, and the steps of the calls *)
(* interleave.  A call keeps what its caller and the remote observe: the   *)
(* outcomes of the requests sent, the delays slept and the value returned. *)
(***************************************************************************)
\* a call not made yet
NoCall == [StartCall("none", Null) EXCEPT !.attempt = 0, !.pc = "new"]

\* client.authorExists(authorId) up to its first GET
CallAuthorExists(c) ==
    /\ probe.fn = "client"
    /\ probe.calls[c].pc = "new"
    /\ probe' = [probe EXCEPT
                    !.calls[c] = StartCall("authorExists", probe.authorId)]
    /\ UNCHANGED <<store, nextId, requests, authors>>

\* client.getAuthor(authorId) up to its first GET
CallGetAuthor(c) ==
    /\ probe.fn = "client"
    /\ probe.calls[c].pc = "new"
    /\ probe' = [probe EXCEPT
                    !.calls[c] = StartCall("getAuthor", probe.authorId)]
    /\ UNCHANGED <<store, nextId, requests, authors>>

\* the GET /authors/:id the call awaits settles; the client function
\* returns when retryRequest is over
ClientGet(c) ==
    \E outcome \in AttemptOutcomes :
        LET call == retryRequest(probe.calls[c], outcome)
        IN  /\ probe.fn = "client"
            /\ probe.calls[c].pc = "get"
            /\ probe' = [probe EXCEPT
                            !.calls[c] = IF Over(call) THEN Return(call)
                                         ELSE call]
            /\ UNCHANGED <<store, nextId, requests, authors>>

\* the timer of the backoff delay the call awaits fires
ClientSleep(c) ==
    /\ probe.fn = "client"
    /\ probe.calls[c].pc = "sleep"
    /\ probe' = [probe EXCEPT !.calls[c] = retryAfterDelay(probe.calls[c])]
    /\ UNCHANGED <<store, nextId, requests, authors>>

\* the calls made
Calls == DOMAIN probe.calls

ClientInit ==
    /\ store = <<>>
    /\ nextId = 1
    /\ requests = <<>>
    /\ authors = <<>>
    /\ probe \in {[fn |-> "client", authorId |-> a,
                   calls |-> [c \in 1..MaxRequests |-> NoCall]] :
                    a \in AuthorIdInputs \ {<<>>}}

ClientNext ==
    \/ \E c \in Calls : CallAuthorExists(c)
    \/ \E c \in Calls : CallGetAuthor(c)
    \/ \E c \in Calls : ClientGet(c)
    \/ \E c \in Calls : ClientSleep(c)

SpecClient == ClientInit /\ [][ClientNext]_vars

(***************************************************************************)
(* The editorial workflow on one publication: a creation is requested, and *)
(* when it is answered the statuses of Workflow are requested one after    *)
(* the other for the row created, each request with any reviewNotes and    *)
(* each when the one before it is answered.                                *)
(***************************************************************************)
Workflow == <<IN_REVIEW, APPROVED, PUBLISHED>>

\* POST /publications
WorkflowCreate == ReceiveCreate(1, CreateInputs)

\* PATCH /publications/:id/status with the k-th status of Workflow, for
\* the id of the creation's response (0: it has none)
WorkflowRequest(k) ==
    /\ requests[k].pc = "done"
    /\ ReceiveChange(k + 1, {requests[1].id},
                     {[status |-> Workflow[k], reviewNotes |-> n] :
                        n \in NoteInputs})

WorkflowInit ==
    /\ store = <<>>
    /\ nextId = 1
    /\ requests = [r \in 1..(Len(Workflow) + 1) |-> Idle]
    /\ authors = <<>>
    /\ probe = NoProbe

WorkflowNext ==
    \/ WorkflowCreate
    \/ \E r \in Slots : Get(r, RemoteOutcomes)
    \/ \E r \in Slots : Sleep(r)
    \/ \E r \in Slots : Insert(r)
    \/ \E k \in DOMAIN Workflow : WorkflowRequest(k)
    \/ \E r \in Slots : Select(r)
    \/ \E r \in Slots : Write(r)
    \/ \E r \in Slots : Reread(r)

SpecWorkflow == WorkflowInit /\ [][WorkflowNext]_vars

(***************************************************************************)
(* Overlapping requests on a stored publication: one request more than     *)
(* above, with fewer bodies, on a table that holds a row.                  *)
(***************************************************************************)
\* the rows of StoredRows taken for the table at the start: those with
\* title and content 'a', in each status, with reviewNotes and without
ConcurrentRows ==
    {r \in StoredRows :
        /\ r.title = <<"a">>
        /\ r.content = <<"a">>
        /\ r.reviewNotes \in {Null, <<"n">>}}

\* bodies of the overlapping PATCH /publications/:id/status requests
ConcurrentChanges ==
    {[status |-> s, reviewNotes |-> <<"n">>] : s \in PublicationStatus}

\* bodies of the overlapping PATCH /publications/:id requests
ConcurrentUpdates == {[title |-> <<"b">>]}

ConcurrentInit ==
    /\ \E row \in ConcurrentRows : store = (1 :> row)
    /\ nextId = 2
    /\ probe = NoProbe
    /\ requests = [r \in 1..(MaxRequests + 1) |-> Idle]
    /\ authors = <<>>

ConcurrentNext ==
    \/ \E r \in Slots : ReceiveChange(r, PubIds, ConcurrentChanges)
    \/ \E r \in Slots : ReceiveUpdate(r, PubIds, ConcurrentUpdates)
    \/ \E r \in Slots : ReceiveDelete(r, PubIds)
    \/ \E r \in Slots : Select(r)
    \/ \E r \in Slots : Write(r)
    \/ \E r \in Slots : Reread(r)
    \/ \E r \in Slots : Delete(r)

SpecConcurrent == ConcurrentInit /\ [][ConcurrentNext]_vars

(***************************************************************************)
(* Authors service: AuthorController, AuthorService and AuthorRepository   *)
(* on the authors table, whose email column is declared unique.  Requests  *)
(* are handled in steps as above, every await on the repository ending a   *)
(* step, and arrive in the order of their slots.  A row carries the        *)
(* email; nextId numbers the generated keys.  An email is the sequence of  *)
(* its words.                                                              *)
(***************************************************************************)
\* number of primary keys the requests of the authors service name in their
\* paths
MaxAuthors == 2

AuthorKeys == 1..MaxAuthors

\* two ordinary addresses, and a string with the words "not found" in it
Emails == {<<"a@x.org">>, <<"b@x.org">>, <<"not", "found@x.org">>}

\* bodies of POST /authors: with an email, with an empty one, without one
CreateAuthorInputs == {[email |-> e] : e \in Emails \cup {<<>>, Null}}

\* bodies of PATCH /authors/:id
UpdateAuthorInputs == {[email |-> e] : e \in Emails}

\* AuthorRepository.findByEmail: the ids of the rows with the email
findByEmail(table, email) == {i \in DOMAIN table : table[i].email = email}

\* `Email ${dto.email} already exists`
AlreadyExists(email) == <<"Email">> \o email \o <<"already", "exists">>

AuthorNotFoundById(id) ==
    <<"Author", "with", "id", ToString(id), "not", "found">>

\* the error of the database when a statement breaks a unique constraint
DuplicateKey ==
    <<"duplicate", "key", "value", "violates", "unique", "constraint">>

\* @Column({ unique: true }) email: a row with key id and this email
\* cannot be written while another row holds the email
uniqueViolation(table, id, email) == findByEmail(table, email) \ {id} # {}

\* AuthorController.handleError.  No error is an instance of
\* ValidationError, NotFoundError or ConflictError: the constructor of
\* AppError sets the prototype of every such object to AppError.prototype,
\* and the service and the database throw plain Errors; so the substrings
\* of the message decide
handleAuthorError(message) ==
    IF Includes(message, <<"not", "found">>)
    THEN Response(404, "NOT_FOUND", message, NoRow)
    ELSE IF Includes(message, <<"already", "exists">>)
    THEN Response(409, "CONFLICT", message, NoRow)
    ELSE Response(500, "INTERNAL_ERROR",
                  <<"An", "unexpected", "error", "occurred">>, NoRow)

\* a request of the authors service whose service call threw
AuthorThrew(request, message, table) ==
    [request EXCEPT !.pc = "done", !.thrown = message,
                    !.resp = handleAuthorError(message), !.after = table]

\* a request of the authors service moves on in slot r
Proceed(r, request) ==
    /\ requests' = [requests EXCEPT ![r] = request]
    /\ UNCHANGED <<store, probe>>

\* 'firstName, lastName, and email are required'
AuthorRequired ==
    <<"firstName,", "lastName,", "and", "email", "are", "required">>

\* POST /authors arrives: the controller throws a ValidationError when a
\* required field is missing, which its catch hands to handleError;
\* otherwise the service awaits findByEmail
ReceiveCreateAuthor(r) ==
    \E dto \in CreateAuthorInputs :
        LET request == InFlight("createAuthor", 0, dto, authors)
        IN  /\ Arrives(r)
            /\ Proceed(r,
                    IF Falsy(dto.email)
                    THEN AuthorThrew(request, AuthorRequired, authors)
                    ELSE request)
            /\ UNCHANGED <<authors, nextId>>

\* AuthorService after its first await: createAuthor has the answer of
\* findByEmail, updateAuthor and deleteAuthor have the row of findById
afterSelect(request, table) ==
    LET found == Found(request, table)
    IN  CASE request.op = "createAuthor" ->
                IF findByEmail(table, request.dto.email) # {}
                THEN AuthorThrew(request, AlreadyExists(request.dto.email),
                                 table)
                ELSE [request EXCEPT !.pc = "read"]
          [] request.op = "updateAuthor" ->
                IF found.seen = NoRow
                THEN AuthorThrew(found, AuthorNotFoundById(request.id), table)
                ELSE IF request.dto.email # found.seen.email
                THEN [found EXCEPT !.pc = "found"]
                ELSE found
          [] request.op = "deleteAuthor" ->
                IF found.seen = NoRow
                THEN AuthorThrew(found, AuthorNotFoundById(request.id), table)
                ELSE found

\* the first SELECT of a request of the authors service
SelectAuthor(r) ==
    /\ requests[r].pc = "select"
    /\ Proceed(r, afterSelect(requests[r], authors))
    /\ UNCHANGED <<authors, nextId>>

\* AuthorRepository.create: the INSERT, and the response
InsertAuthor(r) ==
    LET request == requests[r]
        saved == (nextId :> [email |-> request.dto.email]) @@ authors
    IN  /\ request.op = "createAuthor"
        /\ request.pc = "read"
        /\ IF uniqueViolation(authors, nextId, request.dto.email)
           THEN /\ Proceed(r, AuthorThrew(request, DuplicateKey, authors))
                /\ UNCHANGED <<authors, nextId>>
           ELSE /\ authors' = saved
                /\ nextId' = nextId + 1
                /\ Proceed(r, Answered([request EXCEPT !.id = nextId],
                        Response(201, "SUCCESS", NoError,
                                 [email |-> request.dto.email]),
                        saved))

\* PATCH /authors/:id arrives: the service awaits findById
ReceiveUpdateAuthor(r) ==
    \E id \in AuthorKeys, dto \in UpdateAuthorInputs :
        /\ Arrives(r)
        /\ Proceed(r, InFlight("updateAuthor", id, dto, authors))
        /\ UNCHANGED <<authors, nextId>>

\* updateAuthor: findByEmail of the new email
FindByEmail(r) ==
    LET request == requests[r]
    IN  /\ request.op = "updateAuthor"
        /\ request.pc = "found"
        /\ Proceed(r,
                IF findByEmail(authors, request.dto.email) # {}
                THEN AuthorThrew(request, AlreadyExists(request.dto.email),
                                 authors)
                ELSE [request EXCEPT !.pc = "read"])
        /\ UNCHANGED <<authors, nextId>>

\* AuthorRepository.update: the UPDATE statement
UpdateAuthorRow(r) ==
    LET request == requests[r]
    IN  /\ request.op = "updateAuthor"
        /\ request.pc = "read"
        /\ IF /\ request.id \in DOMAIN authors
              /\ uniqueViolation(authors, request.id, request.dto.email)
           THEN /\ Proceed(r, AuthorThrew(request, DuplicateKey, authors))
                /\ UNCHANGED <<authors, nextId>>
           ELSE /\ authors' = update(authors, request.id, request.dto).table
                /\ Proceed(r, [request EXCEPT !.pc = "written"])
                /\ UNCHANGED nextId

\* AuthorRepository.update: findById after the UPDATE, and the response
RereadAuthor(r) ==
    LET request == requests[r]
        updated == findById(authors, request.id)
    IN  /\ request.op = "updateAuthor"
        /\ request.pc = "written"
        /\ Proceed(r,
                IF updated = NoRow
                THEN AuthorThrew(request,
                        <<"Failed", "to", "update", "author">>, authors)
                ELSE Answered(request,
                        Response(200, "SUCCESS", NoError, updated), authors))
        /\ UNCHANGED <<authors, nextId>>

\* DELETE /authors/:id arrives: the service awaits findById
ReceiveDeleteAuthor(r) ==
    \E id \in AuthorKeys :
        /\ Arrives(r)
        /\ Proceed(r, InFlight("deleteAuthor", id, NoRow, authors))
        /\ UNCHANGED <<authors, nextId>>

\* AuthorRepository.delete, and the response
DeleteAuthorRow(r) ==
    LET request == requests[r]
        deleted == delete(authors, request.id)
    IN  /\ request.op = "deleteAuthor"
        /\ request.pc = "read"
        /\ authors' = deleted.table
        /\ Proceed(r,
                IF ~deleted.result
                THEN AuthorThrew(request,
                        <<"Failed", "to", "delete", "author">>,
                        deleted.table)
                ELSE Answered(request,
                        Response(200, "SUCCESS", NoError, NoRow),
                        deleted.table))
        /\ UNCHANGED nextId

AuthorsInit ==
    /\ store = <<>>
    /\ nextId = 1
    /\ probe = NoProbe
    /\ requests = [r \in 1..(MaxRequests + 1) |-> Idle]
    /\ authors = <<>>

AuthorsNext ==
    \/ \E r \in Slots : ReceiveCreateAuthor(r)
    \/ \E r \in Slots : SelectAuthor(r)
    \/ \E r \in Slots : InsertAuthor(r)
    \/ \E r \in Slots : ReceiveUpdateAuthor(r)
    \/ \E r \in Slots : FindByEmail(r)
    \/ \E r \in Slots : UpdateAuthorRow(r)
    \/ \E r \in Slots : RereadAuthor(r)
    \/ \E r \in Slots : ReceiveDeleteAuthor(r)
    \/ \E r \in Slots : DeleteAuthorRow(r)

SpecAuthors == AuthorsInit /\ [][AuthorsNext]_vars

(***************************************************************************)
(* Properties.  A claim about what a request does to a row is stated for   *)
(* the requests that are answered and were handled with no statement of    *)
(* another request between their arrival and their response.               *)
(***************************************************************************)
Succeeded(r) == requests[r].resp.code = "SUCCESS"

\* the row the request in slot r names, as stored when it was answered
Stored(r) == findById(requests[r].after, requests[r].id)

\* the request in slot r is answered and no other request's statement was
\* executed while it was handled
Alone(r) == requests[r].pc = "done" /\ ~requests[r].disturbed

\* the request in slot r was a status change for a stored row, with a
\* status of the enumeration
ChangeHandled(r) ==
    /\ Alone(r)
    /\ requests[r].op = "changePublicationStatus"
    /\ requests[r].seen # NoRow

Requested(r, status) == ChangeHandled(r) /\ requests[r].dto.status = status

\* the failure is an Error of a validator or of the state-machine check
FailedByRule(r) ==
    /\ ~Succeeded(r)
    /\ requests[r].thrown # NoError
    /\ \/ requests[r].thrown = validateTransition(requests[r].seen,
                                                  requests[r].dto.status)
       \/ requests[r].thrown =
            <<"Cannot", "transition", "from", requests[r].seen.status, "to",
              requests[r].dto.status>>

\* the response 400 INVALID_TRANSITION to the request in slot r
IllegalTransition(r) ==
    Response(400, "INVALID_TRANSITION",
             <<"Cannot", "transition", "from", requests[r].seen.status, "to",
               requests[r].dto.status>>, NoRow)

LegalEdges ==
    {<<DRAFT, IN_REVIEW>>, <<DRAFT, REJECTED>>, <<IN_REVIEW, APPROVED>>,
     <<IN_REVIEW, REJECTED>>, <<IN_REVIEW, DRAFT>>, <<APPROVED, PUBLISHED>>,
     <<REJECTED, DRAFT>>}

\* C1: a status change handled with no other request's statement in
\* between writes the status only when canTransitionToStatus allows the
\* edge and validateTransition accepted the row; if either rejects, the
\* table is as it was.
C1_ChecksBeforeWrite ==
    \A r \in Slots :
        ChangeHandled(r) =>
            LET seen == requests[r].seen
                status == requests[r].dto.status
                legal == canTransitionToStatus(seen, status)
                valid == validateTransition(seen, status) = NoError
            IN  /\ ~(legal /\ valid) =>
                        /\ requests[r].after = requests[r].before
                        /\ ~requests[r].latest
                /\ Stored(r).status # seen.status =>
                        legal /\ valid /\ Stored(r).status = status

C1_Witness ==
    /\ Requested(1, APPROVED)
    /\ requests[1].seen.status = IN_REVIEW
    /\ Stored(1).status = APPROVED
    /\ requests[2].pc = "done"

\* C2: canTransitionToStatus returns true exactly for the seven edges and
\* false for the 18 other pairs, and leaves the entity as it was.
C2_SevenEdges ==
    probe.fn = "canTransitionToStatus" =>
        /\ probe.returned
            <=> (<<probe.this.status, probe.newStatus>> \in LegalEdges)
        /\ probe.after = probe.this

C2_Witness ==
    /\ probe.fn = "canTransitionToStatus"
    /\ probe.this.status = PUBLISHED
    /\ probe.newStatus = REJECTED
    /\ ~probe.returned

\* C3 as claimed: IN_REVIEW requested for a DRAFT or REJECTED row with
\* non-empty title and content succeeds; for an IN_REVIEW, APPROVED or
\* PUBLISHED row it fails.
C3_AsClaimed ==
    \A r \in Slots :
        Requested(r, IN_REVIEW) =>
            /\ ( /\ requests[r].seen.status \in {DRAFT, REJECTED}
                 /\ ~Falsy(requests[r].seen.title)
                 /\ ~Falsy(requests[r].seen.content) )
                    => Succeeded(r) /\ Stored(r).status = IN_REVIEW
            /\ requests[r].seen.status \in {IN_REVIEW, APPROVED, PUBLISHED}
                    => FailedByRule(r)

\* C3 amended: IN_REVIEW requested for a DRAFT row whose title and content
\* are not blank (non-empty after trim) succeeds and the stored status
\* becomes IN_REVIEW; for a REJECTED, IN_REVIEW, APPROVED or PUBLISHED row
\* it fails by a validator or the state machine and the table is as it
\* was.
C3_ToReview ==
    \A r \in Slots :
        Requested(r, IN_REVIEW) =>
            /\ ( /\ requests[r].seen.status = DRAFT
                 /\ ~Blank(requests[r].seen.title)
                 /\ ~Blank(requests[r].seen.content) )
                    => Succeeded(r) /\ Stored(r).status = IN_REVIEW
            /\ requests[r].seen.status
                    \in {REJECTED, IN_REVIEW, APPROVED, PUBLISHED}
                    => /\ FailedByRule(r)
                       /\ requests[r].after = requests[r].before

C3_Witness ==
    /\ Requested(1, IN_REVIEW)
    /\ requests[1].seen.status = DRAFT
    /\ Succeeded(1)
    /\ Stored(1).status = IN_REVIEW

\* C4 as claimed: a successful status change adds exactly 1 to the stored
\* reviewCount when the new status is IN_REVIEW, and nothing otherwise.
C4_AsClaimed ==
    \A r \in Slots :
        (ChangeHandled(r) /\ Succeeded(r)) =>
            Stored(r).reviewCount = requests[r].seen.reviewCount
                + (IF requests[r].dto.status = IN_REVIEW THEN 1 ELSE 0)

\* C5 as claimed: APPROVED succeeds iff the row is IN_REVIEW and the
\* reviewNotes of the request are non-empty.
C5_AsClaimed ==
    \A r \in Slots :
        Requested(r, APPROVED) =>
            (Succeeded(r) <=> ( /\ requests[r].seen.status = IN_REVIEW
                                /\ ~Falsy(requests[r].dto.reviewNotes) ))

\* C6 as claimed: REJECTED with non-empty reviewNotes in the request
\* succeeds for every IN_REVIEW row, whatever reviewNotes the row stores.
C6_AsClaimed ==
    \A r \in Slots :
        ( /\ Requested(r, REJECTED)
          /\ requests[r].seen.status = IN_REVIEW
          /\ ~Falsy(requests[r].dto.reviewNotes) )
            => Succeeded(r) /\ Stored(r).status = REJECTED

\* C7: PUBLISHED succeeds iff the row is APPROVED, whatever its title,
\* content and reviewNotes; on success the stored status is PUBLISHED.
C7_ToPublished ==
    \A r \in Slots :
        Requested(r, PUBLISHED) =>
            /\ Succeeded(r) <=> requests[r].seen.status = APPROVED
            /\ Succeeded(r) => Stored(r).status = PUBLISHED

C7_Witness ==
    /\ Requested(1, PUBLISHED)
    /\ Succeeded(1)
    /\ Blank(requests[1].seen.title)
    /\ Blank(requests[1].seen.reviewNotes)
    /\ Falsy(requests[1].dto.reviewNotes)
    /\ Stored(1).status = PUBLISHED

\* C8: REJECTED fails for a PUBLISHED row, whatever reviewNotes are stored
\* or sent, and the table stays as it was; for a row in another status it
\* fails whenever the stored reviewNotes are empty or whitespace-only.
C8_ToRejectedFails ==
    \A r \in Slots :
        Requested(r, REJECTED) =>
            /\ requests[r].seen.status = PUBLISHED
                    => /\ ~Succeeded(r)
                       /\ requests[r].after = requests[r].before
            /\ ( /\ requests[r].seen.status # PUBLISHED
                 /\ Blank(requests[r].seen.reviewNotes) )
                    => ~Succeeded(r)

C8_Witness ==
    /\ Requested(1, REJECTED)
    /\ requests[1].seen.status = PUBLISHED
    /\ ~Blank(requests[1].seen.reviewNotes)
    /\ ~Blank(requests[1].dto.reviewNotes)
    /\ ~Succeeded(1)
    /\ store = requests[1].before

\* C9 as claimed: a request whose target is no state-machine edge away
\* from the row's status is answered 400 INVALID_TRANSITION with the
\* message 'Cannot transition from <from> to <to>', and the stored status
\* is unchanged.
C9_AsClaimed ==
    \A r \in Slots :
        ( /\ ChangeHandled(r)
          /\ requests[r].dto.status \in PublicationStatus
          /\ <<requests[r].seen.status, requests[r].dto.status>>
                \notin LegalEdges )
            => /\ requests[r].resp = IllegalTransition(r)
               /\ Stored(r).status = requests[r].seen.status

\* C10: DRAFT succeeds iff the row is IN_REVIEW or REJECTED, whatever its
\* title, content and reviewNotes; from DRAFT, APPROVED or PUBLISHED it
\* fails with the illegal-transition error.
C10_ToDraft ==
    \A r \in Slots :
        Requested(r, DRAFT) =>
            /\ Succeeded(r) <=> requests[r].seen.status \in {IN_REVIEW,
                                                             REJECTED}
            /\ Succeeded(r) => Stored(r).status = DRAFT
            /\ requests[r].seen.status \in {DRAFT, APPROVED, PUBLISHED} =>
                    requests[r].resp = IllegalTransition(r)

C10_Witness ==
    /\ Requested(1, DRAFT)
    /\ requests[1].seen.status = REJECTED
    /\ Blank(requests[1].seen.title)
    /\ Succeeded(1)
    /\ Stored(1).status = DRAFT

\* C11: a changePublicationStatus request that fails because the row is
\* not found, a validator throws, the transition is illegal or the status
\* is outside the enumeration has executed no UPDATE, whatever other
\* requests are in flight; unless another request has written meanwhile,
\* the whole table is as it was when the request arrived: no row is added
\* or removed and no field of any row changes.
C11_FailureWritesNothing ==
    \A r \in Slots :
        ( /\ requests[r].pc = "done"
          /\ requests[r].op = "changePublicationStatus"
          /\ ~Succeeded(r)
          /\ requests[r].thrown # <<"Failed", "to", "update", "publication",
                                    "status">> )
            => /\ ~requests[r].latest
               /\ ~requests[r].disturbed
                    => requests[r].after = requests[r].before

C11_Witness ==
    /\ ChangeHandled(1)
    /\ requests[1].thrown = <<"Cannot", "transition", "from", APPROVED, "to",
                              DRAFT>>
    /\ ~Falsy(requests[1].dto.reviewNotes)
    /\ store = requests[1].before

\* every attempt of the call so far has failed
AllFail(call) == \A i \in DOMAIN call.outcomes : call.outcomes[i] # "200"

\* the calls of the client made so far, and those that have returned
ClientCalls ==
    IF probe.fn = "client"
    THEN {probe.calls[c] : c \in {d \in Calls : probe.calls[d].pc # "new"}}
    ELSE {}

Returned == {call \in ClientCalls : Over(call)}

\* C12: when every attempt fails, authorExists and getAuthor send exactly
\* maxRetries = 3 requests, sleep 2000 ms after the first failure and
\* 4000 ms after the second and nothing after the last, and then return
\* false (authorExists) or no value (getAuthor) to the caller.
C12_ExhaustedRetries ==
    /\ \A call \in Returned :
        AllFail(call) =>
            /\ Len(call.outcomes) = maxRetries
            /\ Len(call.outcomes) = 3
            /\ call.delays = <<2000, 4000>>
            /\ call.delay = 0
            /\ call.fn = "authorExists" => call.returned = FALSE
            /\ call.fn = "getAuthor" => call.returned = NoRow
    /\ \A call \in ClientCalls \ Returned :
        /\ AllFail(call)
        /\ call.pc = "sleep" => call.delay = Pow2(call.attempt) * 1000

C12_Witness ==
    /\ probe.fn = "client"
    /\ probe.calls[1].fn = "authorExists"
    /\ probe.calls[1].outcomes = <<"timeout", "timeout", "timeout">>
    /\ probe.calls[1].returned = FALSE
    /\ probe.calls[2].fn = "getAuthor"
    /\ probe.calls[2].outcomes = <<"404", "404", "404">>
    /\ probe.calls[2].returned = NoRow

\* C19: two calls of the same client function whose attempts all fail send
\* the same number of requests, sleep the same delays and return the same
\* value, whatever the causes of the failures (timeout, connection refused,
\* 404 response) and however they are mixed.
C19_CauseBlind ==
    \A c1 \in Returned, c2 \in Returned :
        (c1.fn = c2.fn /\ AllFail(c1) /\ AllFail(c2))
            => /\ Len(c1.outcomes) = Len(c2.outcomes)
               /\ c1.delays = c2.delays
               /\ c1.returned = c2.returned

C19_Witness ==
    /\ probe.fn = "client"
    /\ probe.calls[1].fn = "getAuthor"
    /\ probe.calls[2].fn = "getAuthor"
    /\ probe.calls[1].outcomes = <<"404", "404", "404">>
    /\ probe.calls[2].outcomes = <<"refused", "timeout", "timeout">>
    /\ probe.calls[1].returned = probe.calls[2].returned
    /\ probe.calls[1].delays = probe.calls[2].delays

\* the createPublication in slot r is answered, having called the authors
\* client, and authorExists returned the given value
CreateAsked(r, exists) ==
    /\ requests[r].pc = "done"
    /\ requests[r].op = "createPublication"
    /\ requests[r].calls # <<>>
    /\ requests[r].calls[1].fn = "authorExists"
    /\ requests[r].calls[1].returned = exists

\* C13: a createPublication for which authorExists returns false throws
\* 'Author with id <id> not found', is answered 404 NOT_FOUND with that
\* message, and has stored nothing: the table is as it was unless another
\* request has changed it.
C13_AuthorNotFound ==
    \A r \in Slots :
        CreateAsked(r, FALSE) =>
            /\ requests[r].thrown = AuthorNotFound(requests[r].dto.authorId)
            /\ requests[r].resp =
                    Response(404, "NOT_FOUND",
                             AuthorNotFound(requests[r].dto.authorId), NoRow)
            /\ Len(requests[r].calls) = 1
            /\ requests[r].id = 0
            /\ ~requests[r].disturbed
                    => requests[r].after = requests[r].before

C13_Witness ==
    /\ CreateAsked(1, FALSE)
    /\ requests[1].resp.http = 404
    /\ store = <<>>
    /\ requests[2].pc = "done"

\* C14: a createPublication with title, content and authorId present for
\* which authorExists returns true, once answered, is answered 201 and has
\* stored exactly one new row, with status DRAFT and the title, content
\* and authorId of the request; the row's authorName and authorEmail come
\* from the author data when getAuthor returns some, and both are unset
\* when it returns none.
C14_CreatesDraft ==
    \A r \in Slots :
        CreateAsked(r, TRUE) =>
            /\ requests[r].resp.http = 201
            /\ requests[r].id \notin DOMAIN requests[r].before
            /\ requests[r].id \in DOMAIN requests[r].after
            /\ ~requests[r].disturbed =>
                    /\ DOMAIN requests[r].after
                            = DOMAIN requests[r].before \cup {requests[r].id}
                    /\ \A id \in DOMAIN requests[r].before :
                            requests[r].after[id] = requests[r].before[id]
            /\ LET row == Stored(r)
                   got == requests[r].calls[2]
               IN  /\ row.status = DRAFT
                   /\ row.title = requests[r].dto.title
                   /\ row.content = requests[r].dto.content
                   /\ row.authorId = requests[r].dto.authorId
                   /\ row.reviewNotes = Null
                   /\ requests[r].resp.data = row
                   /\ got.fn = "getAuthor"
                   /\ got.returned # NoRow =>
                        /\ row.authorName = got.returned.firstName
                                \o <<" ">> \o got.returned.lastName
                        /\ row.authorEmail = got.returned.email
                   /\ got.returned = NoRow =>
                        /\ row.authorName = Null
                        /\ row.authorEmail = Null

C14_Witness ==
    /\ CreateAsked(1, TRUE)
    /\ requests[1].calls[2].returned = NoRow
    /\ Succeeded(1)
    /\ Stored(1).status = DRAFT
    /\ Stored(1).authorName = Null
    /\ Stored(1).authorEmail = Null

\* the Error thrown to the request in slot r is a business rule's: a
\* transition validator's, the state machine's, the edit gate's or the
\* delete gate's
RejectedByRule(r) ==
    /\ Alone(r)
    /\ requests[r].op \in {"updatePublication", "changePublicationStatus",
                           "deletePublication"}
    /\ requests[r].seen # NoRow
    /\ requests[r].thrown # NoError

\* C15 as claimed: every rejection by a business rule is answered 400
\* (VALIDATION_ERROR, INVALID_STATE or INVALID_TRANSITION) or 404
\* (NOT_FOUND), never 500 INTERNAL_ERROR.
C15_AsClaimed ==
    \A r \in Slots :
        RejectedByRule(r) =>
            /\ requests[r].resp.http \in {400, 404}
            /\ requests[r].resp.code \in {"VALIDATION_ERROR", "INVALID_STATE",
                                          "INVALID_TRANSITION", "NOT_FOUND"}

\* C16: an updatePublication of a stored row, handled with no other
\* request's statement in between, succeeds only when the row is DRAFT or
\* IN_REVIEW; for an APPROVED, PUBLISHED or REJECTED row it throws
\* 'Publication cannot be edited in <status> status', is answered 400, and
\* the table is as it was.
C16_EditGate ==
    \A r \in Slots :
        ( /\ Alone(r)
          /\ requests[r].op = "updatePublication"
          /\ requests[r].seen # NoRow ) =>
            LET status == requests[r].seen.status
                message == <<"Publication", "cannot", "be", "edited", "in",
                             status, "status">>
            IN  /\ Succeeded(r) => status \in {DRAFT, IN_REVIEW}
                /\ status \in {APPROVED, PUBLISHED, REJECTED} =>
                        /\ requests[r].thrown = message
                        /\ requests[r].resp = Response(400, "INVALID_STATE",
                                                       message, NoRow)
                        /\ requests[r].after = requests[r].before
                        /\ ~requests[r].latest

C16_Witness ==
    /\ Alone(1)
    /\ requests[1].op = "updatePublication"
    /\ requests[1].seen # NoRow
    /\ requests[1].seen.status = REJECTED
    /\ requests[1].dto = [content |-> <<"b">>]
    /\ requests[1].resp.http = 400
    /\ store = requests[1].before

\* C17: a deletePublication of a stored row, handled with no other
\* request's statement in between, fails when the row is PUBLISHED and
\* the table stays as it was, and succeeds when the row is in any other
\* status and the row is gone; so no row is removed while PUBLISHED by
\* requests handled one after the other.
C17_DeleteGate ==
    \A r \in Slots :
        ( /\ Alone(r)
          /\ requests[r].op = "deletePublication"
          /\ requests[r].seen # NoRow ) =>
            IF requests[r].seen.status = PUBLISHED
            THEN /\ ~Succeeded(r)
                 /\ requests[r].after = requests[r].before
            ELSE /\ Succeeded(r)
                 /\ requests[r].id \notin DOMAIN requests[r].after
                 /\ requests[r].before[requests[r].id].status # PUBLISHED

C17_Witness ==
    /\ Alone(1)
    /\ requests[1].op = "deletePublication"
    /\ requests[1].seen # NoRow
    /\ requests[1].seen.status = PUBLISHED
    /\ ~Succeeded(1)
    /\ Alone(2)
    /\ requests[2].op = "deletePublication"
    /\ requests[2].seen = requests[1].seen
    /\ ~Succeeded(2)
    /\ store = requests[1].before

\* the requests in slots r1 and r2 are the same status change, and the row
\* was the same when each of them read it
SameRequest(r1, r2) ==
    /\ requests[r2].op = requests[r1].op
    /\ requests[r2].id = requests[r1].id
    /\ requests[r2].dto = requests[r1].dto
    /\ requests[r2].seen = requests[r1].seen

\* C20: a changePublicationStatus request that has failed has left the
\* table as it was, and the same request (same id, status and reviewNotes)
\* handled again while the row is the same fails with the same Error
\* message and the same response.
C20_SameFailureAgain ==
    \A r1 \in Slots :
        ( /\ Alone(r1)
          /\ requests[r1].op = "changePublicationStatus"
          /\ ~Succeeded(r1) ) =>
            /\ requests[r1].after = requests[r1].before
            /\ \A r2 \in Slots \ {r1} :
                    (Alone(r2) /\ SameRequest(r1, r2)) =>
                        /\ requests[r2].thrown = requests[r1].thrown
                        /\ requests[r2].resp = requests[r1].resp

C20_Witness ==
    /\ ChangeHandled(1)
    /\ requests[1].seen.status = APPROVED
    /\ requests[1].dto.status = DRAFT
    /\ requests[1].resp.code = "INVALID_TRANSITION"
    /\ ChangeHandled(2)
    /\ SameRequest(1, 2)
    /\ requests[2].resp = requests[1].resp

\* the creation of the workflow was answered 201
WorkflowStarted ==
    /\ requests[1].op = "createPublication"
    /\ requests[1].pc = "done"
    /\ requests[1].resp.http = 201

\* the requests of the workflow that follow the creation and are answered
WorkflowDone ==
    {k \in DOMAIN Workflow : requests[k + 1].pc = "done"}

\* the requests of the workflow that follow the creation and have arrived
WorkflowSent ==
    {k \in DOMAIN Workflow : requests[k + 1].pc # "idle"}

\* every request of the workflow answered so far was answered with
\* success and left the stored status the one it requested
WorkflowOnTrack ==
    \A k \in WorkflowDone :
        /\ Succeeded(k + 1)
        /\ Stored(k + 1).status = Workflow[k]

\* C18 as claimed: from a newly created row, IN_REVIEW, APPROVED and
\* PUBLISHED requested in this order, each with non-empty reviewNotes,
\* succeed at every step and leave the stored status PUBLISHED.
C18_AsClaimed ==
    ( /\ WorkflowStarted
      /\ \A k \in WorkflowSent : ~Falsy(requests[k + 1].dto.reviewNotes) )
        => WorkflowOnTrack

\* C18 amended: a newly created row is DRAFT with no reviewNotes; if its
\* title and content are not blank and IN_REVIEW, APPROVED and PUBLISHED
\* are requested in this order, each with reviewNotes that are not blank
\* (non-empty after trim), every request succeeds and the stored status
\* ends PUBLISHED.
C18_HappyPath ==
    WorkflowStarted =>
        /\ Stored(1).status = DRAFT
        /\ Stored(1).reviewNotes = Null
        /\ ( /\ ~Blank(Stored(1).title)
             /\ ~Blank(Stored(1).content)
             /\ \A k \in WorkflowSent :
                    ~Blank(requests[k + 1].dto.reviewNotes) )
                => /\ WorkflowOnTrack
                   /\ Len(Workflow) \in WorkflowDone
                        => store[requests[1].id].status = PUBLISHED

C18_Witness ==
    /\ WorkflowStarted
    /\ WorkflowDone = DOMAIN Workflow
    /\ \A k \in DOMAIN Workflow :
            /\ requests[k + 1].dto.reviewNotes = <<"n">>
            /\ Succeeded(k + 1)
    /\ store[requests[1].id].status = PUBLISHED

\* C25: every call of authorExists or getAuthor ends after at most
\* maxRetries = 3 attempts and counts its own attempts; an attempt that
\* gets a response is the last one the call makes, only the delays before
\* it are slept, and the call returns true (authorExists) or the author
\* record (getAuthor).
C25_BoundedRetries ==
    \A call \in ClientCalls :
        LET n == Len(call.outcomes)
        IN  /\ call.attempt \in 1..maxRetries
            /\ call.attempt = (IF call.pc = "get" THEN n + 1 ELSE n)
            /\ n = maxRetries => Over(call)
            /\ Len(call.delays) = call.attempt - 1
            /\ \A i \in 1..(n - 1) : call.outcomes[i] # "200"
            /\ (n > 0 /\ call.outcomes[n] = "200") =>
                    /\ call.pc = "resolved"
                    /\ call.delay = 0
                    /\ call.delays = [i \in 1..(n - 1) |-> Pow2(i) * 1000]
                    /\ call.fn = "authorExists" => call.returned = TRUE
                    /\ call.fn = "getAuthor" =>
                            call.returned = AuthorData(call.authorId)

C25_Witness ==
    /\ probe.fn = "client"
    /\ probe.calls[1].fn = "getAuthor"
    /\ probe.calls[1].outcomes = <<"timeout", "200">>
    /\ probe.calls[1].delays = <<2000>>
    /\ probe.calls[1].returned # NoRow
    /\ probe.calls[2].fn = "authorExists"
    /\ probe.calls[2].pc = "sleep"
    /\ probe.calls[2].attempt = 2

\* C28: a createPublication whose title, content or authorId is missing or
\* empty is answered 400 VALIDATION_ERROR 'title, content, and authorId are
\* required' without any call of the authors client, and the table is as
\* it was.
C28_ValidatesFirst ==
    \A r \in Slots :
        ( /\ requests[r].op = "createPublication"
          /\ \E f \in {"title", "content", "authorId"} :
                requests[r].dto[f] \in {Null, <<>>} ) =>
            /\ requests[r].pc = "done"
            /\ requests[r].resp = Response(400, "VALIDATION_ERROR", Required,
                                           NoRow)
            /\ requests[r].calls = <<>>
            /\ requests[r].after = requests[r].before
            /\ ~requests[r].disturbed

C28_Witness ==
    /\ requests[1].op = "createPublication"
    /\ requests[1].dto.title = <<"a">>
    /\ requests[1].dto.content = <<>>
    /\ requests[1].resp.http = 400
    /\ requests[1].calls = <<>>
    /\ DOMAIN store # {}
    /\ store = requests[1].before

\* C27: a successful changePublicationStatus leaves the row with the
\* requested status, with the reviewNotes of the request when these are
\* non-empty and with the reviewNotes it had when the request has none or
\* an empty string, every other field being as it was; the row goes from
\* the one state to the other in the single step of the UPDATE.
C27_StatusAndNotes ==
    \A r \in Slots :
        (ChangeHandled(r) /\ Succeeded(r)) =>
            /\ Stored(r) = [requests[r].seen EXCEPT
                    !.status = requests[r].dto.status,
                    !.reviewNotes =
                        IF requests[r].dto.reviewNotes \in {Null, <<>>}
                        THEN @ ELSE requests[r].dto.reviewNotes]
            /\ requests[r].resp.data = Stored(r)

C27_Witness ==
    /\ ChangeHandled(1)
    /\ Succeeded(1)
    /\ requests[1].dto.reviewNotes = <<>>
    /\ requests[1].seen.reviewNotes = <<"n">>
    /\ Stored(1).reviewNotes = <<"n">>
    /\ Stored(1).status # requests[1].seen.status

\* the status a validator guards
Target(validator) ==
    CASE validator = "ToReviewValidator" -> IN_REVIEW
      [] validator = "ToApprovedValidator" -> APPROVED
      [] validator = "ToPublishedValidator" -> PUBLISHED
      [] validator = "ToRejectedValidator" -> REJECTED

\* C29: a validator accepts every row when the requested status is not its
\* target, so at most one of the four rejects a given (row, status), and
\* the facade's loop throws the same message, or none, in each of the 24
\* orders of the validators; no validator changes the row.
C29_OrderInsensitive ==
    probe.fn = "validators" =>
        /\ \A i \in DOMAIN validators :
                Target(validators[i]) # probe.newStatus
                    => probe.each[i] = NoError
        /\ Cardinality({i \in DOMAIN validators :
                            probe.each[i] # NoError}) <= 1
        /\ \A p \in Orderings : probe.inOrder[p] = probe.thrown
        /\ \A i \in DOMAIN validators :
                probe.each[i] # NoError => probe.thrown = probe.each[i]
        /\ probe.after = probe.this

C29_Witness ==
    /\ probe.fn = "validators"
    /\ probe.this.status = IN_REVIEW
    /\ Blank(probe.this.reviewNotes)
    /\ Blank(probe.this.title)
    /\ probe.newStatus = APPROVED
    /\ probe.each[2] # NoError
    /\ \A p \in Orderings : probe.inOrder[p] = probe.each[2]

\* C26 as claimed: updatePublication changes neither status, authorId,
\* authorName, authorEmail nor reviewCount of the row, whatever the body
\* carries, and changePublicationStatus changes neither title, content,
\* authorId, authorName nor authorEmail.
C26_AsClaimed ==
    \A r \in Slots :
        ( /\ Alone(r)
          /\ requests[r].op \in {"updatePublication",
                                 "changePublicationStatus"}
          /\ requests[r].seen # NoRow
          /\ Stored(r) # NoRow ) =>
            LET kept == IF requests[r].op = "updatePublication"
                        THEN {"status", "authorId", "authorName",
                              "authorEmail", "reviewCount"}
                        ELSE {"title", "content", "authorId", "authorName",
                              "authorEmail"}
            IN  \A f \in kept : Stored(r)[f] = requests[r].seen[f]

\* C22 as claimed: with changePublicationStatus requests overlapping on a
\* row, no step changes the stored status of a row that is PUBLISHED.
C22_AsClaimed ==
    [][ \A id \in DOMAIN store :
            (store[id].status = PUBLISHED /\ id \in DOMAIN store')
                => store'[id].status = PUBLISHED ]_vars

\* an APPROVED and a REJECTED request that both read the row IN_REVIEW
\* with reviewNotes, and both got their response
BothAnswered(r1, r2) ==
    /\ requests[r1].op = "changePublicationStatus"
    /\ requests[r2].op = "changePublicationStatus"
    /\ requests[r1].dto.status = APPROVED
    /\ requests[r2].dto.status = REJECTED
    /\ requests[r1].id = requests[r2].id
    /\ \A r \in {r1, r2} :
            /\ requests[r].pc = "done"
            /\ requests[r].seen # NoRow
            /\ requests[r].seen.status = IN_REVIEW
            /\ ~Blank(requests[r].seen.reviewNotes)

\* the two slots are the only ones that have taken requests
OnlyTwo(r1, r2) == \A r \in Slots \ {r1, r2} : requests[r] = Idle

\* C23: when an APPROVED and a REJECTED request on an IN_REVIEW row with
\* reviewNotes overlap so that both read IN_REVIEW, and no request has
\* arrived but in their two slots, both pass the checks and both are
\* answered with success; the stored status is the one of the request that
\* wrote last.
C23_LastWriteWins ==
    \A r1 \in Slots, r2 \in Slots :
        (BothAnswered(r1, r2) /\ OnlyTwo(r1, r2)) =>
            /\ Succeeded(r1)
            /\ Succeeded(r2)
            /\ requests[r1].latest # requests[r2].latest
            /\ store[requests[r1].id].status =
                    (IF requests[r1].latest THEN APPROVED ELSE REJECTED)

C23_Witness ==
    /\ DOMAIN requests # {}
    /\ BothAnswered(1, 2)
    /\ OnlyTwo(1, 2)
    /\ Succeeded(1)
    /\ Succeeded(2)
    /\ requests[2].latest
    /\ store[requests[1].id].status = REJECTED

\* C24 as claimed: with a deletePublication and changePublicationStatus
\* requests overlapping on a row, no step removes a row whose stored
\* status is PUBLISHED.
C24_AsClaimed ==
    [][ \A id \in DOMAIN store :
            store[id].status = PUBLISHED => id \in DOMAIN store' ]_vars

\* C30 as claimed: a changePublicationStatus answered with success returns
\* the row with the requested status, also when other requests on the row
\* overlap with it.
C30_AsClaimed ==
    \A r \in Slots :
        ( /\ requests[r].op = "changePublicationStatus"
          /\ requests[r].pc = "done"
          /\ Succeeded(r) )
            => requests[r].resp.data.status = requests[r].dto.status

\* no two stored authors have the same email
UniqueEmails ==
    \A i \in DOMAIN authors, j \in DOMAIN authors :
        authors[i].email = authors[j].email => i = j

\* the step answers the createAuthor request in slot r
CreateAuthorAnswered(r) ==
    /\ requests'[r] # requests[r]
    /\ requests'[r].op = "createAuthor"
    /\ requests'[r].pc = "done"

\* C21: a createAuthor answered while an author with its email is stored
\* gets 409 CONFLICT 'Email <email> already exists' and stores no author;
\* and after every step of any overlapping createAuthor, updateAuthor and
\* deleteAuthor requests no two stored authors have the same email.
C21_AsClaimed ==
    [][ /\ UniqueEmails'
        /\ \A r \in Slots :
            ( /\ CreateAuthorAnswered(r)
              /\ findByEmail(authors, requests'[r].dto.email) # {} ) =>
                /\ requests'[r].resp =
                        Response(409, "CONFLICT",
                                 AlreadyExists(requests'[r].dto.email), NoRow)
                /\ authors' = authors ]_vars

====
